---- MODULE Spec2Model ----
(***************************************************************************)
(* Model of the DECS key-value server: the sharded LRU cache               *)
(* (include/LRUCache.h), the executor and the connection pool              *)
(* (src/server/KVServer.h) and the request handlers                        *)
(* (src/server/KVServer.cpp).                                              *)
(*                                                                         *)
(* A 64-bit key is written [hi, lo] with key = hi * 2^32 + lo, where lo is *)
(* the low 32 bits read as a signed int.  Narrowing a long long to int     *)
(* keeps lo; widening an int n to long long gives [hi |-> 0, lo |-> n].    *)
(***************************************************************************)
EXTENDS Integers, Sequences, FiniteSets, TLC

\* ------------------------------------------------------------------ bounds
MaxTotal == 2      \* largest total_capacity handed to ShardedLRUCache
MaxShards == 2     \* largest shard_count handed to ShardedLRUCache
MaxKey == 1        \* cache keys -1 .. MaxKey, plus one key above 2^32
MaxCap == 3        \* largest capacity of the single shard of the LRU laws
NumClients == 2    \* request-handling threads of the HTTP server
PoolSize == 2      \* pool_size: executor workers and pooled sessions
CacheCapacity == 8 \* cache_capacity handed to KVServer

\* --------------------------------------------------------------- constants
ServerShards == 8  \* shard count of KVServer::_cache

VARIABLES
    total_capacity,   \* ShardedLRUCache constructor argument
    shard_count,      \* ShardedLRUCache::_shard_count
    shards,           \* ShardedLRUCache::_shards : index -> LRUCache state
    shard_mutex,      \* LRUShard::_mutex : index -> set of shared holders
    ret,              \* the last cache call and what it returned
    script,           \* the calls made so far on the shard of the LRU laws
    store,            \* the table of the backing store: key -> optional value
    committed,        \* key -> the values the store has held for that key
    clients,          \* handler thread -> its position and locals
    reply,            \* the response the last step sent, with its request
    deleted,          \* keys whose DELETE replied "deleted", no PUT committed since
    tasks,            \* ThreadPool::tasks
    workers,          \* ThreadPool::workers : worker -> position, task, conn
    stop_flag,        \* ThreadPool::stop_flag
    db_pool,          \* DBPool::_pool, the idle sessions
    pool_size,        \* DBPool::_pool_size, also the number of workers
    last_write,       \* sequential runs: key -> the last PUT / DELETE on it
    construction,     \* DBPool::DBPool : position, sessions open and closed
    ledger            \* ThreadPool : submissions accepted, refused, outcomes

cacheVars == <<total_capacity, shard_count, shards, shard_mutex, ret, script>>
serverVars ==
    <<store, committed, clients, reply, deleted, tasks, workers, stop_flag, db_pool,
      pool_size, last_write, construction, ledger>>
vars == <<cacheVars, serverVars>>

\* ------------------------------------------------------------- data values
Values == {"a", "b"}

\* int -> long long
LL(n) == [hi |-> 0, lo |-> n]

\* a key of 2^32 + 1: it does not fit an int
BigKey == [hi |-> 1, lo |-> 1]

CacheKeys == {LL(n) : n \in (-1)..MaxKey} \cup {BigKey}

Max(a, b) == IF a >= b THEN a ELSE b

\* ---------------------------------------------------------------- LRUCache
\* An LRUCache is [capacity, item_list, item_map]: item_list is the
\* std::list, head first, each node carrying its identity (what an iterator
\* refers to, stable under splice); item_map maps a key to a node identity.

LRUCache(capacity) ==
    [capacity |-> capacity, item_list |-> <<>>, item_map |-> <<>>]

Size(c) == Cardinality(DOMAIN c.item_map)

\* position in the list of the node an iterator refers to
NodeAt(list, it) == CHOOSE i \in 1..Len(list) : list[i].id = it

\* std::list::splice(begin(), list, it): relink the node to the front
Splice(list, it) ==
    LET i == NodeAt(list, it)
    IN  <<list[i]>> \o SubSeq(list, 1, i - 1) \o SubSeq(list, i + 1, Len(list))

\* std::list::erase(it)
ListErase(list, it) ==
    LET i == NodeAt(list, it)
    IN  SubSeq(list, 1, i - 1) \o SubSeq(list, i + 1, Len(list))

\* std::unordered_map::erase(key)
MapErase(map, key) == [k \in (DOMAIN map) \ {key} |-> map[k]]

\* operator[] assignment
MapSet(map, key, it) ==
    [k \in (DOMAIN map) \cup {key} |-> IF k = key THEN it ELSE map[k]]

\* the node a new list element is allocated in
NewNode(c) ==
    LET used == {c.item_list[i].id : i \in 1..Len(c.item_list)}
                    \cup {c.item_map[k] : k \in DOMAIN c.item_map}
    IN  CHOOSE n \in 0..Cardinality(used) :
            n \notin used /\ \A m \in 0..(n - 1) : m \in used

\* the eviction block with the test size > capacity
EvictWhenOver(c) ==
    IF Len(c.item_list) > c.capacity
    THEN LET lru_key == c.item_list[Len(c.item_list)].key
         IN  [c EXCEPT !.item_list = SubSeq(c.item_list, 1, Len(c.item_list) - 1),
                       !.item_map = MapErase(c.item_map, lru_key)]
    ELSE c

\* the eviction block taking front() instead of back()
EvictMRU(c) ==
    IF Len(c.item_list) = c.capacity
    THEN LET mru_key == c.item_list[1].key
         IN  [c EXCEPT !.item_list = SubSeq(c.item_list, 2, Len(c.item_list)),
                       !.item_map = MapErase(c.item_map, mru_key)]
    ELSE c

\* the eviction block of Put
EvictLRU(c) ==
    IF Len(c.item_list) = c.capacity
    THEN LET lru_key == c.item_list[Len(c.item_list)].key
         IN  [c EXCEPT !.item_list = SubSeq(c.item_list, 1, Len(c.item_list) - 1),
                       !.item_map = MapErase(c.item_map, lru_key)]
    ELSE c

\* Put with the eviction block ahead of the lookup of the key
LRUCache_PutEvictFirst(c, key, value) ==
    LET e == EvictLRU(c)
    IN  IF key \in DOMAIN e.item_map
        THEN LET it == e.item_map[key]
                 upd == [i \in 1..Len(e.item_list) |->
                            IF e.item_list[i].id = it
                            THEN [e.item_list[i] EXCEPT !.value = value]
                            ELSE e.item_list[i]]
             IN  [e EXCEPT !.item_list = Splice(upd, it)]
        ELSE LET n == NewNode(e)
             IN  [e EXCEPT !.item_list = <<[id |-> n, key |-> key, value |-> value]>>
                                             \o e.item_list,
                           !.item_map = MapSet(e.item_map, key, n)]

LRUCache_Put(c, key, value) ==
    IF key \in DOMAIN c.item_map
    THEN LET it == c.item_map[key]
             upd == [i \in 1..Len(c.item_list) |->
                        IF c.item_list[i].id = it
                        THEN [c.item_list[i] EXCEPT !.value = value]
                        ELSE c.item_list[i]]
         IN  [c EXCEPT !.item_list = Splice(upd, it)]
    ELSE LET e == EvictLRU(c)
             n == NewNode(e)
         IN  [e EXCEPT !.item_list = <<[id |-> n, key |-> key, value |-> value]>>
                                         \o e.item_list,
                       !.item_map = MapSet(e.item_map, key, n)]

\* Get without the splice
LRUCache_GetNoTouch(c, key) ==
    IF key \notin DOMAIN c.item_map
    THEN [found |-> FALSE, ret_val |-> "", cache |-> c]
    ELSE LET it == c.item_map[key]
         IN  [found |-> TRUE,
              ret_val |-> c.item_list[NodeAt(c.item_list, it)].value,
              cache |-> c]

\* Get returns [found, ret_val, cache]
LRUCache_Get(c, key) ==
    IF key \notin DOMAIN c.item_map
    THEN [found |-> FALSE, ret_val |-> "", cache |-> c]
    ELSE LET it == c.item_map[key]
             l == Splice(c.item_list, it)
         IN  [found |-> TRUE,
              ret_val |-> l[NodeAt(l, it)].value,
              cache |-> [c EXCEPT !.item_list = l]]

\* Erase that unlinks the node and leaves the index entry
LRUCache_EraseListOnly(c, key) ==
    IF key \in DOMAIN c.item_map
    THEN [c EXCEPT !.item_list = ListErase(c.item_list, c.item_map[key])]
    ELSE c

LRUCache_Erase(c, key) ==
    IF key \in DOMAIN c.item_map
    THEN [c EXCEPT !.item_list = ListErase(c.item_list, c.item_map[key]),
                   !.item_map = MapErase(c.item_map, key)]
    ELSE c

\* --------------------------------------------------------- ShardedLRUCache
\* 2^16, 2^32 and 2^64 modulo n
Pow16Mod(n) == 65536 % n
Pow32Mod(n) == (Pow16Mod(n) * Pow16Mod(n)) % n
Pow64Mod(n) == (Pow32Mod(n) * Pow32Mod(n)) % n

IsNegative(key) == key.hi < 0 \/ (key.hi = 0 /\ key.lo < 0)

\* std::hash<long long> is the conversion to size_t: key modulo 2^64
HashMod(key, n) ==
    (((key.hi % n) * Pow32Mod(n)) + (key.lo % n)
        + (IF IsNegative(key) THEN Pow64Mod(n) ELSE 0)) % n

shard_of(key) == HashMod(key, shard_count)

\* the constructor: clamps the shard count, computes per_shard
ClampShardCount(n) == IF n = 0 THEN 1 ELSE n
\* per_shard without the division by the shard count
PerShardUndivided(total, n) == Max(1, total)

PerShard(total, n) == Max(1, total \div n)

ShardedLRUCache(total, n) ==
    [s \in 0..(ClampShardCount(n) - 1) |->
        LRUCache(PerShard(total, ClampShardCount(n)))]

\* Put routed without the hash
Sharded_PutFirstShard(key, value) ==
    [shards EXCEPT ![0] = LRUCache_Put(@, key, value)]

Sharded_Put(key, value) ==
    [shards EXCEPT ![shard_of(key)] = LRUCache_Put(@, key, value)]

Sharded_Get(key) == LRUCache_Get(shards[shard_of(key)], key)

Sharded_Erase(key) ==
    [shards EXCEPT ![shard_of(key)] = LRUCache_Erase(@, key)]

\* keys of a shard's recency list, head first
ListKeys(c) == [i \in 1..Len(c.item_list) |-> c.item_list[i].key]
KeySet(c) == {c.item_list[i].key : i \in 1..Len(c.item_list)}

\* the cache on its own: no store, no handler threads, no executor
NoServer ==
    /\ store = <<>>
    /\ committed = <<>>
    /\ clients = <<>>
    /\ reply = <<>>
    /\ deleted = {}
    /\ tasks = <<>>
    /\ workers = <<>>
    /\ stop_flag = FALSE
    /\ db_pool = <<>>
    /\ pool_size = 0
    /\ last_write = <<>>
    /\ construction = <<>>
    /\ ledger = <<>>

\* ------------------------------------------- the cache used by one caller
InitCache ==
    /\ total_capacity \in 0..MaxTotal
    /\ \E n \in 0..MaxShards :
        /\ shard_count = ClampShardCount(n)
        /\ shards = ShardedLRUCache(total_capacity, n)
    /\ shard_mutex = [s \in 0..(shard_count - 1) |-> {}]
    /\ ret = [op |-> "none"]
    /\ script = <<>>
    /\ NoServer

CachePut ==
    \E key \in CacheKeys, value \in Values :
        /\ shard_mutex[shard_of(key)] = {}
        /\ shards' = Sharded_Put(key, value)
        /\ ret' = [op |-> "Put", key |-> key, value |-> value,
                   removed |-> KeySet(shards[shard_of(key)])
                                \ KeySet(shards'[shard_of(key)])]
        /\ UNCHANGED <<total_capacity, shard_count, shard_mutex, script, serverVars>>

CacheGet ==
    \E key \in CacheKeys :
        LET r == Sharded_Get(key)
        IN  /\ shard_mutex[shard_of(key)] = {}
            /\ shards' = [shards EXCEPT ![shard_of(key)] = r.cache]
            /\ ret' = [op |-> "Get", key |-> key, found |-> r.found,
                       ret_val |-> r.ret_val]
            /\ UNCHANGED <<total_capacity, shard_count, shard_mutex, script, serverVars>>

CacheErase ==
    \E key \in CacheKeys :
        /\ shard_mutex[shard_of(key)] = {}
        /\ shards' = Sharded_Erase(key)
        /\ ret' = [op |-> "Erase", key |-> key]
        /\ UNCHANGED <<total_capacity, shard_count, shard_mutex, script, serverVars>>

NextCache == CachePut \/ CacheGet \/ CacheErase

SpecCache == InitCache /\ [][NextCache]_vars

\* ------------------------------------------------ one shard, the LRU laws
\* A single shard of capacity C receives keys 1, 2, 3, ... in this order,
\* with lookups of any key in between.
InitLaws ==
    /\ total_capacity \in 1..MaxCap
    /\ shard_count = 1
    /\ shards = ShardedLRUCache(total_capacity, 1)
    /\ shard_mutex = [s \in 0..0 |-> {}]
    /\ ret = [op |-> "none"]
    /\ script = <<>>
    /\ NoServer

PutsIn(sc) == Len(SelectSeq(sc, LAMBDA e : e.op = "Put"))

LawPut ==
    \E value \in Values :
        LET key == LL(PutsIn(script) + 1)
        IN  /\ Len(script) < total_capacity + 2
            /\ shards' = Sharded_Put(key, value)
            /\ script' = Append(script, [op |-> "Put", key |-> key.lo])
            /\ ret' = [op |-> "Put", key |-> key, value |-> value,
                       removed |-> KeySet(shards[0]) \ KeySet(shards'[0])]
            /\ UNCHANGED <<total_capacity, shard_count, shard_mutex, serverVars>>

LawGet ==
    \E n \in 1..(MaxCap + 1) :
        LET r == Sharded_Get(LL(n))
        IN  /\ Len(script) < total_capacity + 2
            /\ shards' = [shards EXCEPT ![0] = r.cache]
            /\ script' = Append(script, [op |-> "Get", key |-> n])
            /\ ret' = [op |-> "Get", key |-> LL(n), found |-> r.found,
                       ret_val |-> r.ret_val]
            /\ UNCHANGED <<total_capacity, shard_count, shard_mutex, serverVars>>

NextLaws == LawPut \/ LawGet

SpecLaws == InitLaws /\ [][NextLaws]_vars

\* ============================================================ the server
\* DBPool::DBPool has opened the sessions 1 .. n and returned
Constructed(n) ==
    [pc |-> "done", i |-> n, open |-> 1..n, closed |-> <<>>]

\* no submission has been made to the executor
NoLedger == [accepted |-> 0, refused |-> 0, outcomes |-> <<>>]

Clients == 1..NumClients
\* pool_size workers and pool_size sessions
Workers == 1..pool_size
Sessions == 1..pool_size

\* std::optional<std::string>
Nullopt == [has_value |-> FALSE, value |-> ""]
Some(v) == [has_value |-> TRUE, value |-> v]

\* long long -> int: the low 32 bits
ToInt(key) == key.lo

\* what std::stoll returns for the key parameters the requests carry
ServerKeys == {LL(1), BigKey}

\* The parameters of a request.  A request with a missing or non-integer
\* key, or a PUT with a missing value, is answered 400 before the handler
\* touches the cache, the executor or the pool; the handlers below start
\* from well-formed parameters.
KeyParams == {[kind |-> "int", val |-> k] : k \in ServerKeys}
ValueParams == Values

\* rows the handlers can address
StoreKeys == ServerKeys \cup {LL(ToInt(k)) : k \in ServerKeys}

\* ------------------------------------------------------- the table adapter
\* fail: mysql_query (or mysql_store_result) reports an error
db_select_value(key, fail) == IF fail THEN Nullopt ELSE store[key]

\* [ok, store]
db_upsert(key, value, fail) ==
    IF fail
    THEN [ok |-> FALSE, store |-> store]
    ELSE [ok |-> TRUE, store |-> [store EXCEPT ![key] = Some(value)]]

\* [ok, affected, store]
db_delete(key, fail) ==
    IF fail
    THEN [ok |-> FALSE, affected |-> 0, store |-> store]
    ELSE [ok |-> TRUE,
          affected |-> IF store[key].has_value THEN 1 ELSE 0,
          store |-> [store EXCEPT ![key] = Nullopt]]

\* --------------------------------------------------------- handler threads
NoFuture == [state |-> "none", ok |-> FALSE, affected |-> 0]
Pending == [state |-> "pending", ok |-> FALSE, affected |-> 0]
Ready(ok, affected) == [state |-> "ready", ok |-> ok, affected |-> affected]
Thrown == [state |-> "thrown", ok |-> FALSE, affected |-> 0]

NoTask == [kind |-> "none", key |-> LL(0), value |-> "", client |-> 0]

IdleClient ==
    [pc |-> "idle", op |-> "", key_param |-> [kind |-> "empty", val |-> LL(0)],
     value_param |-> "", int_key |-> LL(0), value |-> "", conn |-> 0,
     raced |-> FALSE, fut |-> NoFuture, store_error |-> FALSE,
     expired |-> FALSE]

\* a handler thread takes the next request
Request(op, key_param, value_param) ==
    [IdleClient EXCEPT !.op = op, !.key_param = key_param,
                       !.value_param = value_param]

\* res.status / res.set_content: the response to the request of thread c;
\* store_error records that the request's store call failed
Response(c, me, status, body) ==
    [op |-> me.op, key_param |-> me.key_param,
     value_param |-> me.value_param, status |-> status, body |-> body,
     store_error |-> me.store_error]

\* the last step sent no response
NoReply == Response(0, IdleClient, 0, "")

Free(c) == clients[c].pc = "idle"

\* what a sequential run remembers of the requests on one key
NoWrite == [kind |-> "none", value |-> ""]
PutWrite(v) == [kind |-> "put", value |-> v]
DeleteWrite == [kind |-> "delete", value |-> ""]

\* the history after the response: a PUT that replied 200 is the last write
\* of its key, a DELETE that replied 200 is the last delete of its key, a
\* DELETE that replied 404 ends what is known of the key; a request that
\* replied 500 leaves the history as it was.  Nothing is recorded when
\* requests may overlap (last_write = <<>>).
Recorded(me, status) ==
    IF DOMAIN last_write = {} THEN last_write
    ELSE IF me.op = "PUT" /\ status = 200
    THEN [last_write EXCEPT ![me.key_param.val] = PutWrite(me.value_param)]
    ELSE IF me.op = "DELETE" /\ status = 200
    THEN [last_write EXCEPT ![me.key_param.val] = DeleteWrite]
    ELSE IF me.op = "DELETE" /\ status = 404
    THEN [last_write EXCEPT ![me.key_param.val] = NoWrite]
    ELSE last_write

\* the handler returns: the response is sent and the thread is free again
Respond(c, me, status, body) ==
    /\ clients' = [clients EXCEPT ![c] = IdleClient]
    /\ reply' = Response(c, me, status, body)
    /\ deleted' = IF me.op = "DELETE" /\ status = 200
                  THEN deleted \cup {me.int_key}
                  ELSE deleted
    /\ last_write' = Recorded(me, status)

\* a deleter that closes the session instead of returning it
ReleaseClosed(pool, conn) == pool

\* DBPool::acquire's deleter: the session goes back to the idle queue
Release(pool, conn) == Append(pool, conn)

\* all orders of the nodes of a list
Perms(list) ==
    {[i \in 1..Len(list) |-> list[f[i]]] :
        f \in {g \in [1..Len(list) -> 1..Len(list)] :
                \A i, j \in 1..Len(list) : g[i] = g[j] => i = j}}

\* LRUCache::Get on key reads the recency list / relinks its nodes
Touches(c, key) == key \in DOMAIN c.item_map
Relinks(c, key) == Touches(c, key) /\ c.item_list[1].id # c.item_map[key]

\* two Gets inside one shard under the shared lock race when one relinks
\* nodes while the other reads or relinks them
Conflict(c, k1, k2) ==
    \/ Relinks(c, k1) /\ Touches(c, k2)
    \/ Relinks(c, k2) /\ Touches(c, k1)

\* ------------------------------------------------------------- HandleGet
\* the request arrives; a well-formed key takes the shard's shared lock
HandleGet_Begin(c) ==
    \E kp \in KeyParams :
        LET me == Request("GET", kp, "")
            int_key == LL(ToInt(kp.val))
        IN  /\ Free(c)
            /\ IF kp.kind = "empty"
               THEN /\ Respond(c, me, 400, "Missing Key parameter")
                    /\ UNCHANGED shard_mutex
               ELSE IF kp.kind = "nan"
               THEN /\ Respond(c, me, 400, "Key must be an integer")
                    /\ UNCHANGED shard_mutex
               ELSE /\ clients' = [clients EXCEPT ![c] =
                                     [me EXCEPT !.pc = "get_cache",
                                                !.int_key = int_key]]
                    /\ shard_mutex' = [shard_mutex EXCEPT ![shard_of(int_key)] =
                                          @ \cup {c}]
                    /\ reply' = NoReply
                    /\ UNCHANGED <<deleted, last_write>>
            /\ UNCHANGED <<total_capacity, shard_count, shards, ret, script,
                           store, committed, tasks, workers, stop_flag, pool_size, construction, ledger, db_pool>>

\* _cache.Get under the shard's shared lock; a hit replies
HandleGet_CacheGet(c) ==
    LET me == clients[c]
        s == shard_of(me.int_key)
        r == LRUCache_Get(shards[s], me.int_key)
        racing == {o \in shard_mutex[s] \ {c} :
                      Conflict(shards[s], me.int_key, clients[o].int_key)}
        lists == IF me.raced \/ racing # {}
                 THEN Perms(r.cache.item_list)
                 ELSE {r.cache.item_list}
    IN  /\ me.pc = "get_cache"
        /\ \E l \in lists :
            shards' = [shards EXCEPT ![s] = [r.cache EXCEPT !.item_list = l]]
        /\ shard_mutex' = [shard_mutex EXCEPT ![s] = @ \ {c}]
        /\ clients' = [o \in Clients |->
                          IF o = c
                          THEN IF r.found
                               THEN IdleClient
                               ELSE [me EXCEPT !.pc = "get_acquire",
                                               !.raced = FALSE]
                          ELSE IF o \in racing
                          THEN [clients[o] EXCEPT !.raced = TRUE]
                          ELSE clients[o]]
        /\ reply' = IF r.found THEN Response(c, me, 200, r.ret_val) ELSE NoReply
        /\ UNCHANGED <<total_capacity, shard_count, ret, script, deleted, last_write,
                       store, committed, tasks, workers, stop_flag, pool_size, construction, ledger, db_pool>>

\* _dbpool.acquire() on the handler thread
HandleGet_Acquire(c) ==
    /\ clients[c].pc = "get_acquire"
    /\ db_pool # <<>>
    /\ clients' = [clients EXCEPT ![c].pc = "get_select",
                                  ![c].conn = Head(db_pool)]
    /\ db_pool' = Tail(db_pool)
    /\ reply' = NoReply
    /\ UNCHANGED <<cacheVars, store, committed, deleted, last_write, tasks, workers, stop_flag, pool_size, construction, ledger>>

\* db_select_value; no value: 404 and the session goes back
HandleGet_Select(c) ==
    \E fail \in BOOLEAN :
        LET me == clients[c]
            opt == db_select_value(me.int_key, fail)
        IN  /\ me.pc = "get_select"
            /\ IF opt.has_value
               THEN /\ clients' = [clients EXCEPT ![c].pc = "get_fill",
                                                  ![c].value = opt.value]
                    /\ reply' = NoReply
                    /\ UNCHANGED <<db_pool, deleted, last_write>>
               ELSE /\ Respond(c, [me EXCEPT !.store_error = fail], 404,
                               "Key not found")
                    /\ db_pool' = Release(db_pool, me.conn)
            /\ UNCHANGED <<cacheVars, store, committed, tasks, workers, stop_flag, pool_size, construction, ledger>>

\* _cache.Put of the value read, reply, the session goes back
HandleGet_Fill(c) ==
    LET me == clients[c]
    IN  /\ me.pc = "get_fill"
        /\ shard_mutex[shard_of(me.int_key)] = {}
        /\ shards' = Sharded_Put(me.int_key, me.value)
        /\ Respond(c, me, 200, me.value)
        /\ db_pool' = Release(db_pool, me.conn)
        /\ UNCHANGED <<total_capacity, shard_count, shard_mutex, ret, script,
                       store, committed, tasks, workers, stop_flag, pool_size, construction, ledger>>

\* ------------------------------------------------------------- ThreadPool
\* submit without the test of stop_flag
submitUnchecked(task) == [thrown |-> FALSE, tasks |-> Append(tasks, task)]

\* submit: [thrown, tasks]
submit(task) ==
    IF stop_flag
    THEN [thrown |-> TRUE, tasks |-> tasks]
    ELSE [thrown |-> FALSE, tasks |-> Append(tasks, task)]

IdleWorker == [pc |-> "wait", task |-> NoTask, conn |-> 0]

\* Worker_Take that leaves the task at the front of the queue
Worker_TakeNoPop(w) ==
    /\ workers[w].pc = "wait"
    /\ tasks # <<>>
    /\ workers' = [workers EXCEPT ![w].pc = "run", ![w].task = Head(tasks)]
    /\ UNCHANGED <<cacheVars, store, committed, clients, reply, deleted,
                   last_write, tasks, stop_flag, pool_size, construction,
                   ledger, db_pool>>

\* Worker_Take from the back of the queue
Worker_TakeLast(w) ==
    /\ workers[w].pc = "wait"
    /\ tasks # <<>>
    /\ workers' = [workers EXCEPT ![w].pc = "run",
                                  ![w].task = tasks[Len(tasks)]]
    /\ tasks' = SubSeq(tasks, 1, Len(tasks) - 1)
    /\ UNCHANGED <<cacheVars, store, committed, clients, reply, deleted,
                   last_write, stop_flag, pool_size, construction, ledger,
                   db_pool>>

\* a worker leaves cv.wait with the task at the front of the queue
Worker_Take(w) ==
    /\ workers[w].pc = "wait"
    /\ tasks # <<>>
    /\ workers' = [workers EXCEPT ![w].pc = "run", ![w].task = Head(tasks)]
    /\ tasks' = Tail(tasks)
    /\ reply' = NoReply
    /\ UNCHANGED <<cacheVars, store, committed, clients, deleted, last_write, stop_flag, pool_size, construction, ledger, db_pool>>

\* the task's _dbpool.acquire()
Task_Acquire(w) ==
    /\ workers[w].pc = "run"
    /\ db_pool # <<>>
    /\ workers' = [workers EXCEPT ![w].pc = "call", ![w].conn = Head(db_pool)]
    /\ db_pool' = Tail(db_pool)
    /\ reply' = NoReply
    /\ UNCHANGED <<cacheVars, store, committed, clients, deleted, last_write, tasks, stop_flag, pool_size, construction, ledger>>

\* the task's store call; the session goes back; the future is fulfilled
\* with the result ("ok" / "error") or with a thrown exception ("throw")
Task_Call(w) ==
    \E outcome \in {"ok", "error", "throw"} :
        LET t == workers[w].task
            up == db_upsert(t.key, t.value, outcome # "ok")
            del == db_delete(t.key, outcome # "ok")
            result == IF outcome = "throw" THEN Thrown
                      ELSE IF t.kind = "upsert" THEN Ready(up.ok, 0)
                      ELSE Ready(del.ok, del.affected)
        IN  /\ workers[w].pc = "call"
            /\ store' = IF t.kind = "upsert" THEN up.store ELSE del.store
            /\ committed' = IF t.kind = "upsert" /\ up.ok
                            THEN [committed EXCEPT ![t.key] = @ \cup {t.value}]
                            ELSE committed
            /\ db_pool' = Release(db_pool, workers[w].conn)
            /\ clients' = [clients EXCEPT ![t.client].fut = result]
            /\ workers' = [workers EXCEPT ![w] = IdleWorker]
            /\ reply' = NoReply
            /\ deleted' = IF t.kind = "upsert" /\ up.ok
                          THEN deleted \ {t.key}
                          ELSE deleted
            /\ UNCHANGED <<cacheVars, tasks, stop_flag, pool_size, construction, ledger, last_write>>

\* ------------------------------------------------------------- HandlePut
HandlePut_Submit(c) ==
    \E kp \in KeyParams, vp \in ValueParams :
        LET me == Request("PUT", kp, vp)
            int_key == LL(ToInt(kp.val))
            sub == submit([kind |-> "upsert", key |-> int_key, value |-> vp,
                           client |-> c])
        IN  /\ Free(c)
            /\ IF kp.kind = "empty" \/ vp = ""
               THEN /\ Respond(c, me, 400, "Missing Key/Value parameter")
                    /\ UNCHANGED tasks
               ELSE IF kp.kind = "nan"
               THEN /\ Respond(c, me, 400, "Key must be an integer")
                    /\ UNCHANGED tasks
               ELSE IF sub.thrown
               THEN /\ Respond(c, me, 500, "ThreadPool stopped")
                    /\ UNCHANGED tasks
               ELSE /\ clients' = [clients EXCEPT ![c] =
                                     [me EXCEPT !.pc = "put_wait",
                                                !.int_key = int_key,
                                                !.fut = Pending]]
                    /\ tasks' = sub.tasks
                    /\ reply' = NoReply
                    /\ UNCHANGED <<deleted, last_write>>
            /\ UNCHANGED <<cacheVars, store, committed, workers, stop_flag, pool_size, construction, ledger, db_pool>>

\* HandlePut_Finish with _cache.Put moved before the test of the result
HandlePut_FinishPutFirst(c) ==
    LET me == clients[c]
        ok == me.fut.state = "ready" /\ me.fut.ok
    IN  /\ me.pc = "put_wait"
        /\ me.fut.state \in {"ready", "thrown"}
        /\ shard_mutex[shard_of(me.int_key)] = {}
        /\ shards' = Sharded_Put(me.int_key, me.value_param)
        /\ \/ /\ ok
              /\ Respond(c, me, 200, "Key-value pair stored successfully")
           \/ /\ ~ok
              /\ Respond(c, [me EXCEPT !.store_error = TRUE], 500,
                         "Database write failed")
        /\ UNCHANGED <<total_capacity, shard_count, shard_mutex, ret, script,
                       store, committed, tasks, workers, stop_flag, pool_size, construction, ledger,
                       db_pool>>

\* fut.get(), then _cache.Put on success
HandlePut_Finish(c) ==
    LET me == clients[c]
        ok == me.fut.state = "ready" /\ me.fut.ok
    IN  /\ me.pc = "put_wait"
        /\ me.fut.state \in {"ready", "thrown"}
        /\ \/ /\ ok
              /\ shard_mutex[shard_of(me.int_key)] = {}
              /\ shards' = Sharded_Put(me.int_key, me.value_param)
              /\ Respond(c, me, 200, "Key-value pair stored successfully")
           \/ /\ ~ok
              /\ shards' = shards
              /\ Respond(c, [me EXCEPT !.store_error = TRUE], 500,
                         "Database write failed")
        /\ UNCHANGED <<total_capacity, shard_count, shard_mutex, ret, script,
                       store, committed, tasks, workers, stop_flag, pool_size, construction, ledger, db_pool>>

\* ---------------------------------------------------------- HandleDelete
HandleDelete_Submit(c) ==
    \E kp \in KeyParams :
        LET me == Request("DELETE", kp, "")
            int_key == kp.val
            sub == submit([kind |-> "delete", key |-> int_key, value |-> "",
                           client |-> c])
        IN  /\ Free(c)
            /\ IF kp.kind = "empty"
               THEN /\ Respond(c, me, 400, "Missing Key parameter")
                    /\ UNCHANGED tasks
               ELSE IF kp.kind = "nan"
               THEN /\ Respond(c, me, 400, "Key must be integer")
                    /\ UNCHANGED tasks
               ELSE IF sub.thrown
               THEN /\ Respond(c, me, 500, "ThreadPool stopped")
                    /\ UNCHANGED tasks
               ELSE /\ clients' = [clients EXCEPT ![c] =
                                     [me EXCEPT !.pc = "delete_wait",
                                                !.int_key = int_key,
                                                !.fut = Pending]]
                    /\ tasks' = sub.tasks
                    /\ reply' = NoReply
                    /\ UNCHANGED <<deleted, last_write>>
            /\ UNCHANGED <<cacheVars, store, committed, workers, stop_flag, pool_size, construction, ledger, db_pool>>

\* HandleDelete_Finish with _cache.Erase moved before the test of affected
HandleDelete_FinishEraseFirst(c) ==
    LET me == clients[c]
        ok == me.fut.state = "ready" /\ me.fut.ok
    IN  /\ me.pc = "delete_wait"
        /\ me.fut.state \in {"ready", "thrown"}
        /\ \/ /\ ~ok
              /\ shards' = shards
              /\ Respond(c, [me EXCEPT !.store_error = TRUE], 500,
                         "Database delete failed")
           \/ /\ ok
              /\ shard_mutex[shard_of(me.int_key)] = {}
              /\ shards' = Sharded_Erase(me.int_key)
              /\ IF me.fut.affected > 0
                 THEN Respond(c, me, 200, "Key deleted successfully")
                 ELSE Respond(c, me, 404, "Key not found in database")
        /\ UNCHANGED <<total_capacity, shard_count, shard_mutex, ret, script,
                       store, committed, tasks, workers, stop_flag, pool_size, construction, ledger,
                       db_pool>>

\* fut.get(), then _cache.Erase when rows were affected
HandleDelete_Finish(c) ==
    LET me == clients[c]
        ok == me.fut.state = "ready" /\ me.fut.ok
    IN  /\ me.pc = "delete_wait"
        /\ me.fut.state \in {"ready", "thrown"}
        /\ \/ /\ ~ok
              /\ shards' = shards
              /\ Respond(c, [me EXCEPT !.store_error = TRUE], 500,
                         "Database delete failed")
           \/ /\ ok
              /\ me.fut.affected > 0
              /\ shard_mutex[shard_of(me.int_key)] = {}
              /\ shards' = Sharded_Erase(me.int_key)
              /\ Respond(c, me, 200, "Key deleted successfully")
           \/ /\ ok
              /\ me.fut.affected = 0
              /\ shards' = shards
              /\ Respond(c, me, 404, "Key not found in database")
        /\ UNCHANGED <<total_capacity, shard_count, shard_mutex, ret, script,
                       store, committed, tasks, workers, stop_flag, pool_size, construction, ledger, db_pool>>

\* ------------------------------------------------------------- KVServer
\* the state after construction: the table holds any rows, the cache is
\* empty, every session is idle, every worker waits
InitServer ==
    /\ total_capacity = CacheCapacity
    /\ shard_count = ClampShardCount(ServerShards)
    /\ shards = ShardedLRUCache(CacheCapacity, ServerShards)
    /\ shard_mutex = [s \in 0..(shard_count - 1) |-> {}]
    /\ ret = [op |-> "none"]
    /\ script = <<>>
    /\ store \in [StoreKeys -> {Nullopt} \cup {Some(v) : v \in Values}]
    /\ committed = [k \in StoreKeys |->
                       IF store[k].has_value THEN {store[k].value} ELSE {}]
    /\ clients = [c \in Clients |-> IdleClient]
    /\ reply = NoReply
    /\ deleted = {}
    /\ tasks = <<>>
    /\ pool_size = PoolSize
    /\ workers = [w \in Workers |-> IdleWorker]
    /\ stop_flag = FALSE
    /\ db_pool = [i \in 1..PoolSize |-> i]
    /\ construction = Constructed(PoolSize)
    /\ ledger = NoLedger
    /\ last_write = <<>>

NextServer ==
    \/ \E c \in Clients : HandleGet_Begin(c)
    \/ \E c \in Clients : HandleGet_CacheGet(c)
    \/ \E c \in Clients : HandleGet_Acquire(c)
    \/ \E c \in Clients : HandleGet_Select(c)
    \/ \E c \in Clients : HandleGet_Fill(c)
    \/ \E c \in Clients : HandlePut_Submit(c)
    \/ \E c \in Clients : HandlePut_Finish(c)
    \/ \E c \in Clients : HandleDelete_Submit(c)
    \/ \E c \in Clients : HandleDelete_Finish(c)
    \/ \E w \in Workers : Worker_Take(w)
    \/ \E w \in Workers : Task_Acquire(w)
    \/ \E w \in Workers : Task_Call(w)

Spec == InitServer /\ [][NextServer]_vars

\* =================================================== claims on the server
\* no request is in a handler, no task is queued or running
Quiescent ==
    /\ \A c \in Clients : clients[c].pc = "idle"
    /\ tasks = <<>>
    /\ \A w \in Workers : workers[w].pc = "wait"

\* the entries of all shards of the cache
CacheEntries ==
    UNION {{shards[s].item_list[i] : i \in 1..Len(shards[s].item_list)} :
            s \in 0..(shard_count - 1)}

\* C1: coherence of reads - every GET(k) that replies success returns a
\* value the store has held committed for key k (its initial value or the
\* value of a PUT(k, v) whose upsert succeeded), on a cache hit and on a
\* cache-miss fill.
CoherentReads ==
    (reply.op = "GET" /\ reply.status = 200) =>
        reply.body \in committed[reply.key_param.val]

\* C2: quiescent cache/store agreement - once all requests have completed,
\* every entry (k, v) of the cache has a row k with value v in the store.
QuiescentAgreement ==
    Quiescent => \A e \in CacheEntries : store[e.key] = Some(e.value)

\* C3: once a DELETE(k) has replied "deleted", no PUT(k, _) has committed
\* after it and all requests have completed, the cache holds no entry for k.
DeleteLeavesNoEntry ==
    \A k \in StoreKeys :
        (Quiescent /\ k \in deleted /\ ~store[k].has_value) =>
            \A e \in CacheEntries : e.key # k

\* ==================================================== claims on the cache
ShardIds == 0..(shard_count - 1)

TotalEntries ==
    LET RECURSIVE Sum(_)
        Sum(n) == IF n = 0 THEN 0 ELSE Len(shards[n - 1].item_list) + Sum(n - 1)
    IN  Sum(shard_count)

\* C4: capacity bound - after any sequence of Put, Get and Erase the number
\* of entries of every shard (nodes of the list, keys of the index) is at
\* most the shard's capacity.
CapacityBound ==
    \A s \in ShardIds :
        /\ Len(shards[s].item_list) <= shards[s].capacity
        /\ Size(shards[s]) <= shards[s].capacity

\* a Put has just removed an entry from a shard of capacity 2 that is full
\* again
WitCapacityBound ==
    /\ ret.op = "Put"
    /\ ret.removed # {}
    /\ shards[shard_of(ret.key)].capacity = 2
    /\ Len(shards[shard_of(ret.key)].item_list) = 2

\* C5 as stated: for every total capacity T >= 1 the entries of all shards
\* together number at most T.
TotalWithinConfigured ==
    total_capacity >= 1 => TotalEntries <= total_capacity

\* C5 amended: the entries of all shards together number at most
\* max(T, N), which is T whenever T >= N.
TotalWithinShardSum ==
    total_capacity >= 1 => TotalEntries <= Max(total_capacity, shard_count)

\* both shards of a cache of total capacity 2 are full
WitTotalWithinShardSum ==
    /\ total_capacity = 2
    /\ shard_count = 2
    /\ TotalEntries = 2
    /\ \A s \in ShardIds : Len(shards[s].item_list) = shards[s].capacity

\* C6: index/list consistency - the keys of the index are the keys of the
\* recency list, and the index entry of key k refers to the one list node
\* whose key is k.
IndexListConsistent ==
    \A s \in ShardIds :
        LET c == shards[s]
        IN  /\ DOMAIN c.item_map = KeySet(c)
            /\ \A k \in DOMAIN c.item_map :
                /\ \E i \in 1..Len(c.item_list) : c.item_list[i].id = c.item_map[k]
                /\ \A i \in 1..Len(c.item_list) :
                    c.item_list[i].id = c.item_map[k] <=> c.item_list[i].key = k

\* an Erase has just removed a key from a shard that still holds another
WitIndexListConsistent ==
    /\ ret.op = "Erase"
    /\ ret.key \notin KeySet(shards[shard_of(ret.key)])
    /\ Len(shards[shard_of(ret.key)].item_list) >= 1
    /\ shards[shard_of(ret.key)].capacity >= 2

\* C7: eviction correctness - a Put(k, v) removes another entry only when k
\* is not in the shard and the shard holds exactly C entries, the entry
\* removed is the tail of the recency list before the Put, and a Put of a
\* key already present removes nothing.
EvictionStep ==
    ret'.op = "Put" =>
        LET s == shard_of(ret'.key)
            old == shards[s]
            gone == KeySet(old) \ KeySet(shards'[s])
        IN  /\ gone # {} =>
                /\ ret'.key \notin KeySet(old)
                /\ Len(old.item_list) = old.capacity
                /\ gone = {old.item_list[Len(old.item_list)].key}
            /\ ret'.key \in KeySet(old) => gone = {}
            /\ \A t \in ShardIds \ {s} : shards'[t] = shards[t]

EvictionCorrect == [][EvictionStep]_vars

\* a Put has just evicted from a shard of capacity 2
WitEvictionCorrect ==
    /\ ret.op = "Put"
    /\ ret.removed # {}
    /\ ret.key \notin ret.removed
    /\ shards[shard_of(ret.key)].capacity = 2

\* the nodes of a list other than the one with key k, in list order
Others(list, k) == SelectSeq(list, LAMBDA e : e.key # k)

\* the nodes of a list that are also in list l2
Remaining(list, l2) ==
    SelectSeq(list, LAMBDA e : \E i \in 1..Len(l2) : l2[i] = e)

\* C8: recency - right after a Get(k) that returns found and right after
\* any Put(k, _), k is at the head of its shard's recency list and the
\* other remaining entries keep their relative order.
RecencyStep ==
    (ret'.op = "Put" \/ (ret'.op = "Get" /\ ret'.found)) =>
        LET s == shard_of(ret'.key)
            old == shards[s].item_list
            new == shards'[s].item_list
        IN  /\ Len(new) >= 1
            /\ new[1].key = ret'.key
            /\ Others(new, ret'.key)
                 = Remaining(Others(old, ret'.key), Others(new, ret'.key))

Uniqueness ==
    \A k \in CacheKeys :
        \A s \in ShardIds :
            LET n == Cardinality({i \in 1..Len(shards[s].item_list) :
                                    shards[s].item_list[i].key = k})
            IN  /\ n <= 1
                /\ n = 1 => s = HashMod(k, shard_count)

\* two shards hold entries, and a Put has just landed on a key
WitUniqueness ==
    /\ shard_count = 2
    /\ \A s \in ShardIds : Len(shards[s].item_list) >= 1
    /\ ret.op = "Put"
    /\ ret.key \in KeySet(shards[shard_of(ret.key)])

\* ================================================= claims on the LRU laws
PutScript(n) == [i \in 1..n |-> [op |-> "Put", key |-> i]]

\* the script of law (a): keys 1 .. C+1 inserted in order
OrderScript(C) == PutScript(C + 1)

\* the script of law (b): keys 1 .. C, then Get(1), then key C+1
TouchScript(C) ==
    PutScript(C) \o <<[op |-> "Get", key |-> 1], [op |-> "Put", key |-> C + 1]>>

LawOrder ==
    script = OrderScript(total_capacity) =>
        KeySet(shards[0]) = {LL(i) : i \in 2..(total_capacity + 1)}

LawTouch ==
    script = TouchScript(total_capacity) =>
        /\ LL(2) \notin KeySet(shards[0])
        /\ LL(1) \in KeySet(shards[0])
        /\ ListKeys(shards[0])
             = <<LL(total_capacity + 1), LL(1)>>
                 \o [i \in 1..(total_capacity - 2) |-> LL(total_capacity + 1 - i)]

\* C9 as stated: both laws for every capacity C >= 1.
LRULawsAnyCapacity == LawOrder /\ LawTouch

\* C9 amended: law (a) for every capacity C >= 1, law (b) for every
\* capacity C >= 2 (with C = 1 the Put of key 2 evicts key 1, the only
\* entry).
LRULaws == LawOrder /\ (total_capacity >= 2 => LawTouch)

\* C = 3: put 1, 2, 3, get 1, put 4 leaves 4, 1, 3
WitLRULaws ==
    /\ total_capacity = 3
    /\ script = TouchScript(3)
    /\ ListKeys(shards[0]) = <<LL(4), LL(1), LL(3)>>

\* ================================================ requests one at a time
\* A sequential run: a request is accepted only when no request is in a
\* handler and no task is queued or running.  The history of the last write
\* of every key is recorded.
InitSeq ==
    /\ total_capacity = CacheCapacity
    /\ shard_count = ClampShardCount(ServerShards)
    /\ shards = ShardedLRUCache(CacheCapacity, ServerShards)
    /\ shard_mutex = [s \in 0..(shard_count - 1) |-> {}]
    /\ ret = [op |-> "none"]
    /\ script = <<>>
    /\ store \in [StoreKeys -> {Nullopt} \cup {Some(v) : v \in Values}]
    /\ committed = [k \in StoreKeys |->
                       IF store[k].has_value THEN {store[k].value} ELSE {}]
    /\ clients = [c \in Clients |-> IdleClient]
    /\ reply = NoReply
    /\ deleted = {}
    /\ tasks = <<>>
    /\ pool_size = PoolSize
    /\ workers = [w \in Workers |-> IdleWorker]
    /\ stop_flag = FALSE
    /\ db_pool = [i \in 1..PoolSize |-> i]
    /\ construction = Constructed(PoolSize)
    /\ ledger = NoLedger
    /\ last_write = [k \in StoreKeys |-> NoWrite]

NextSeq ==
    \/ \E c \in Clients : Quiescent /\ HandleGet_Begin(c)
    \/ \E c \in Clients : HandleGet_CacheGet(c)
    \/ \E c \in Clients : HandleGet_Acquire(c)
    \/ \E c \in Clients : HandleGet_Select(c)
    \/ \E c \in Clients : HandleGet_Fill(c)
    \/ \E c \in Clients : Quiescent /\ HandlePut_Submit(c)
    \/ \E c \in Clients : HandlePut_Finish(c)
    \/ \E c \in Clients : Quiescent /\ HandleDelete_Submit(c)
    \/ \E c \in Clients : HandleDelete_Finish(c)
    \/ \E w \in Workers : Worker_Take(w)
    \/ \E w \in Workers : Task_Acquire(w)
    \/ \E w \in Workers : Task_Call(w)

SpecSeq == InitSeq /\ [][NextSeq]_vars

\* the cache sh holds key k (with value v) in the shard hash(k) mod N
HoldsKeyIn(sh, k) ==
    \E i \in 1..Len(sh[HashMod(k, shard_count)].item_list) :
        sh[HashMod(k, shard_count)].item_list[i].key = k
HoldsIn(sh, k, v) ==
    \E i \in 1..Len(sh[HashMod(k, shard_count)].item_list) :
        /\ sh[HashMod(k, shard_count)].item_list[i].key = k
        /\ sh[HashMod(k, shard_count)].item_list[i].value = v

\* the steps of GET(k) by thread c: a probe of a cache that holds k replies
\* the cached value and borrows no session; a store read that succeeds on a
\* row (k, v) the cache does not hold goes on to fill, and the fill replies
\* v with (k, v) in the cache
ReadPathStep(c) ==
    LET me == clients[c]
        k == me.key_param.val
    IN  /\ (me.pc = "get_cache" /\ clients'[c] # me /\ HoldsKeyIn(shards, k)) =>
            /\ reply'.op = "GET" /\ reply'.status = 200
            /\ HoldsIn(shards, k, reply'.body)
            /\ clients'[c].pc = "idle"
            /\ db_pool' = db_pool
        /\ (/\ me.pc = "get_select" /\ clients'[c] # me
            /\ ~HoldsKeyIn(shards, k) /\ store[k].has_value
            /\ ~reply'.store_error) =>
            /\ clients'[c].pc = "get_fill"
            /\ clients'[c].value = store[k].value
        /\ (me.pc = "get_fill" /\ clients'[c] # me) =>
            /\ reply'.op = "GET" /\ reply'.status = 200
            /\ reply'.body = me.value
            /\ HoldsIn(shards', k, me.value)

\* C11: GET(k) read path - if the cache holds k, GET replies the cached
\* value without any store call; if the cache does not hold k and the store
\* holds (k, v), GET replies v and afterwards the cache holds (k, v) in
\* shard hash(k) mod N.
ReadPath == [][\A c \in Clients : ReadPathStep(c)]_vars

\* the steps of a GET(k) by thread c whose key the cache does not hold and
\* the store has no row for: none changes a shard, and the reply is 404
NoNegativeCachingStep(c) ==
    LET me == clients[c]
        k == me.key_param.val
    IN  (/\ me.op = "GET" /\ clients'[c] # me
         /\ ~HoldsKeyIn(shards, k) /\ ~store[k].has_value) =>
            /\ shards' = shards
            /\ clients'[c].pc = "idle" => reply'.status = 404

\* C12: no negative caching - a GET(k) for which the cache misses and the
\* store has no row for k replies not-found and leaves every shard of the
\* cache (contents and recency order) unchanged.
NoNegativeCaching == [][\A c \in Clients : NoNegativeCachingStep(c)]_vars

\* C13: a GET(k) that misses the cache and whose store read fails replies
\* server-error (500), not the not-found reply (404) of a read that finds
\* no row, and leaves the cache unchanged.
GetStoreErrorIs500 ==
    [][(reply'.op = "GET" /\ reply'.store_error) =>
            (reply'.status = 500 /\ shards' = shards)]_vars

\* the future of a mutation delivers a store error or an exception
Failed(fut) == fut.state = "thrown" \/ (fut.state = "ready" /\ ~fut.ok)

\* in a sequential run every step up to fut.get() of a PUT or DELETE leaves
\* the cache as it is, and so does the step that finds the store call
\* failed, which replies 500
StoreErrorIsolationStep ==
    /\ (\E c \in Clients : clients'[c].pc \in {"put_wait", "delete_wait"}) =>
            shards' = shards
    /\ \A c \in Clients :
        (/\ clients[c].pc \in {"put_wait", "delete_wait"}
         /\ clients'[c].pc = "idle"
         /\ Failed(clients[c].fut)) =>
            /\ reply'.status = 500
            /\ reply'.op = clients[c].op
            /\ shards' = shards

\* C14: store-error isolation for mutations - when the store call of a
\* PUT(k, v) or DELETE(k) fails (error result or exception through the
\* future) the request replies 500 and the cache is exactly as it was
\* before the request.
StoreErrorIsolation == [][StoreErrorIsolationStep]_vars

\* a PUT or DELETE on a key the cache holds has replied 500 after its store
\* call failed
WitStoreErrorIsolation ==
    /\ reply.op \in {"PUT", "DELETE"} /\ reply.status = 500
    /\ reply.store_error
    /\ HoldsKeyIn(shards, reply.key_param.val)

\* C15: Put/Get and Overwrite laws - in a sequential run, when the last
\* request on k that changed the history was a successful PUT(k, v), a
\* GET(k) whose store call does not fail replies 200 with v, and afterwards
\* the store and the cache hold (k, v).
PutGetLaw ==
    [][(/\ reply'.op = "GET" /\ ~reply'.store_error
        /\ last_write[reply'.key_param.val].kind = "put") =>
            /\ reply'.status = 200
            /\ reply'.body = last_write[reply'.key_param.val].value
            /\ store'[reply'.key_param.val] = Some(reply'.body)
            /\ HoldsIn(shards', reply'.key_param.val, reply'.body)]_vars

\* C16: delete absorption - in a sequential run with a store that does not
\* fail, a DELETE(k) after a successful PUT(k, v) replies deleted (200), a
\* GET(k) after that DELETE replies not-found (404), and after either
\* reply neither the store nor the cache holds k.
DeleteAbsorption ==
    [][(/\ ~reply'.store_error
        /\ \/ (reply'.op = "DELETE"
                /\ last_write[reply'.key_param.val].kind = "put")
           \/ (reply'.op = "GET"
                /\ last_write[reply'.key_param.val].kind = "delete")) =>
            /\ reply'.status = IF reply'.op = "DELETE" THEN 200 ELSE 404
            /\ ~store'[reply'.key_param.val].has_value
            /\ ~HoldsKeyIn(shards', reply'.key_param.val)]_vars

\* C17: key fidelity - every request in a handler addresses the store row
\* and the cache entry of the key k it was sent for, and so does the store
\* task submitted for it.
KeyFidelity ==
    /\ \A c \in Clients :
        clients[c].pc # "idle" => clients[c].int_key = clients[c].key_param.val
    /\ \A i \in 1..Len(tasks) :
        tasks[i].key = clients[tasks[i].client].key_param.val

\* the steps of DELETE(k) by thread c: submitting, the store call, and the
\* step that finds ok with no row affected, which replies 404; none changes
\* a shard
ZeroRowsDeleteStep(c) ==
    LET me == clients[c]
    IN  /\ (me.pc = "idle" /\ clients'[c].pc = "delete_wait") =>
            shards' = shards
        /\ (/\ me.pc = "delete_wait" /\ clients'[c].pc = "delete_wait"
            /\ clients'[c] # me) =>
            shards' = shards
        /\ (/\ me.pc = "delete_wait" /\ clients'[c].pc = "idle"
            /\ me.fut.state = "ready" /\ me.fut.ok /\ me.fut.affected = 0) =>
            /\ reply'.op = "DELETE" /\ reply'.status = 404
            /\ shards' = shards

\* C18: a DELETE(k) whose store call succeeds with rows-affected == 0
\* replies not-found and leaves the cache unchanged (no entry removed, no
\* recency order changed).
ZeroRowsDelete == [][\A c \in Clients : ZeroRowsDeleteStep(c)]_vars

\* a DELETE(k) has replied not-found while the cache holds an entry for k
WitZeroRowsDelete ==
    /\ reply.op = "DELETE" /\ reply.status = 404
    /\ HoldsKeyIn(shards, reply.key_param.val)

\* ======================================== the pool with fewer sessions
\* KVServer constructed with any pool_size up to PoolSize, so that the
\* handler threads can outnumber the sessions, and a clock: the deadline
\* of a request may pass while the request waits in acquire().
InitBusy ==
    /\ total_capacity = CacheCapacity
    /\ shard_count = ClampShardCount(ServerShards)
    /\ shards = ShardedLRUCache(CacheCapacity, ServerShards)
    /\ shard_mutex = [s \in 0..(shard_count - 1) |-> {}]
    /\ ret = [op |-> "none"]
    /\ script = <<>>
    /\ store \in [StoreKeys -> {Nullopt} \cup {Some(v) : v \in Values}]
    /\ committed = [k \in StoreKeys |->
                       IF store[k].has_value THEN {store[k].value} ELSE {}]
    /\ clients = [c \in Clients |-> IdleClient]
    /\ reply = NoReply
    /\ deleted = {}
    /\ tasks = <<>>
    /\ pool_size \in 1..PoolSize
    /\ workers = [w \in Workers |-> IdleWorker]
    /\ stop_flag = FALSE
    /\ db_pool = [i \in Sessions |-> i]
    /\ construction = Constructed(pool_size)
    /\ ledger = NoLedger
    /\ last_write = <<>>

\* the request of thread c waits in _cv.wait of acquire(): on the handler
\* thread for a GET, in its task for a PUT or DELETE
WaitsForSession(c) ==
    /\ db_pool = <<>>
    /\ \/ clients[c].pc = "get_acquire"
       \/ \E w \in Workers :
            workers[w].pc = "run" /\ workers[w].task.client = c

\* the deadline of the request passes during the wait; _cv.wait has no
\* timeout, the wait goes on
Deadline(c) ==
    /\ WaitsForSession(c)
    /\ ~clients[c].expired
    /\ clients' = [clients EXCEPT ![c].expired = TRUE]
    /\ reply' = NoReply
    /\ UNCHANGED <<cacheVars, store, committed, deleted, tasks, workers,
                   stop_flag, db_pool, pool_size, last_write, construction,
                   ledger>>

NextBusy ==
    \/ NextServer
    \/ \E c \in Clients : Deadline(c)

SpecBusy == InitBusy /\ [][NextBusy]_vars

\* the sessions borrowed through acquire(): by a GET handler from acquire
\* to its return, by a task during its store call
HandlerHolds(c) == clients[c].pc \in {"get_select", "get_fill"}
TaskHolds(w) == workers[w].pc = "call"
Idle == {db_pool[i] : i \in 1..Len(db_pool)}
Borrowed ==
    {clients[c].conn : c \in {d \in Clients : HandlerHolds(d)}}
        \cup {workers[w].conn : w \in {v \in Workers : TaskHolds(v)}}

\* C19: pool conservation and exclusivity - in every reachable state the
\* idle sessions plus the borrowed sessions number P, no session is both
\* idle and borrowed, no session is borrowed by two callers, and a session
\* is back in the idle set once its handle's scope has ended.
PoolConservation ==
    /\ Len(db_pool) + Cardinality({c \in Clients : HandlerHolds(c)})
            + Cardinality({w \in Workers : TaskHolds(w)}) = pool_size
    /\ Cardinality(Idle) = Len(db_pool)
    /\ Idle \cap Borrowed = {}
    /\ Idle \cup Borrowed = Sessions
    /\ \A c \in Clients, w \in Workers :
        (HandlerHolds(c) /\ TaskHolds(w)) => clients[c].conn # workers[w].conn
    /\ \A c, d \in Clients :
        (HandlerHolds(c) /\ HandlerHolds(d) /\ c # d) =>
            clients[c].conn # clients[d].conn
    /\ \A w, v \in Workers :
        (TaskHolds(w) /\ TaskHolds(v) /\ w # v) =>
            workers[w].conn # workers[v].conn

\* a GET whose store read failed has returned its session while the other
\* session is borrowed
WitPoolConservation ==
    /\ reply.op = "GET" /\ reply.store_error
    /\ pool_size = 2
    /\ Len(db_pool) = 1
    /\ Borrowed # {}

\* C20: pool exhaustion is reported as server-busy - a request whose wait
\* in acquire() lasted beyond its deadline replies 503.
ExhaustionIsBusy ==
    [][\A c \in Clients :
        (clients[c].expired /\ clients'[c].pc = "idle") =>
            reply'.status = 503]_vars

\* C22: lookup is exclusive on its shard - a Get holds the shard's lock
\* exclusively while it reorders the recency list, so no two operations are
\* inside the same shard at the same time.
LookupExclusive ==
    \A s \in DOMAIN shard_mutex : Cardinality(shard_mutex[s]) <= 1

\* ================================================= one LRUCache, any capacity
\* LRUCache<long long, std::string> constructed directly with a capacity of
\* 0 .. MaxCap and used by one caller.
InitLRU ==
    /\ total_capacity \in 0..MaxCap
    /\ shard_count = 1
    /\ shards = [s \in {0} |-> LRUCache(total_capacity)]
    /\ shard_mutex = [s \in {0} |-> {}]
    /\ ret = [op |-> "none", undefined |-> FALSE]
    /\ script = <<>>
    /\ NoServer

\* Put of an absent key finds size() == _capacity on an empty list: back()
\* and pop_back() of an empty std::list are undefined
EvictsFromEmpty(c, key) ==
    /\ key \notin DOMAIN c.item_map
    /\ Len(c.item_list) = c.capacity
    /\ c.item_list = <<>>

\* what the undefined eviction can leave behind: the process is gone, or
\* the calls went unnoticed and the entry is inserted over capacity
UndefinedPut(c, key, value) ==
    {c, [c EXCEPT !.item_list = <<[id |-> 0, key |-> key, value |-> value]>>,
                  !.item_map = MapSet(c.item_map, key, 0)]}

\* no call follows undefined behaviour
Defined == ~ret.undefined

LRUPut ==
    \E key \in CacheKeys, value \in Values :
        /\ Defined
        /\ IF EvictsFromEmpty(shards[0], key)
           THEN /\ \E c \in UndefinedPut(shards[0], key, value) :
                        shards' = [shards EXCEPT ![0] = c]
                /\ ret' = [op |-> "Put", key |-> key, undefined |-> TRUE]
           ELSE /\ shards' = [shards EXCEPT ![0] = LRUCache_Put(@, key, value)]
                /\ ret' = [op |-> "Put", key |-> key, undefined |-> FALSE]
        /\ UNCHANGED <<total_capacity, shard_count, shard_mutex, script, serverVars>>

LRUGet ==
    \E key \in CacheKeys :
        LET r == LRUCache_Get(shards[0], key)
        IN  /\ Defined
            /\ shards' = [shards EXCEPT ![0] = r.cache]
            /\ ret' = [op |-> "Get", key |-> key, undefined |-> FALSE]
            /\ UNCHANGED <<total_capacity, shard_count, shard_mutex, script, serverVars>>

LRUErase ==
    \E key \in CacheKeys :
        /\ Defined
        /\ shards' = [shards EXCEPT ![0] = LRUCache_Erase(@, key)]
        /\ ret' = [op |-> "Erase", key |-> key, undefined |-> FALSE]
        /\ UNCHANGED <<total_capacity, shard_count, shard_mutex, script, serverVars>>

NextLRU == LRUPut \/ LRUGet \/ LRUErase

SpecLRU == InitLRU /\ [][NextLRU]_vars

\* C29: capacity clamp - every constructed LRUCache has capacity >= 1, so a
\* Put into it never evicts the tail of an empty recency list.
CapacityClamp ==
    ret.op = "Put" =>
        /\ \A s \in DOMAIN shards : shards[s].capacity >= 1
        /\ ~ret.undefined


\* =========================================================== the executor
\* ThreadPool on its own: callers submit callables that return or throw,
\* and the owner destroys the pool while callers may still submit
MaxTasks == 3

\* ThreadPool::ThreadPool : a pool asked for no worker gets one
WorkerCount(n) == IF n = 0 THEN 1 ELSE n

InitExecutor ==
    /\ total_capacity = 0
    /\ shard_count = 0
    /\ shards = <<>>
    /\ shard_mutex = <<>>
    /\ ret = [op |-> "none"]
    /\ script = <<>>
    /\ store = <<>>
    /\ committed = <<>>
    /\ reply = NoReply
    /\ deleted = {}
    /\ last_write = <<>>
    /\ pool_size \in {WorkerCount(n) : n \in 0..PoolSize}
    /\ clients = [c \in Clients |-> IdleClient]
    /\ tasks = <<>>
    /\ workers = [w \in Workers |-> IdleWorker]
    /\ stop_flag = FALSE
    /\ db_pool = <<>>
    /\ construction = <<>>
    /\ ledger = NoLedger

\* the packaged_task of caller c; ticket numbers the accepted submissions
Callable(c, ticket) ==
    [kind |-> "call", key |-> LL(0), value |-> "", client |-> c,
     ticket |-> ticket]

\* ~ThreadPool has joined every worker
Joined == stop_flag /\ \A w \in Workers : workers[w].pc = "exited"

\* a caller submits a callable: the future, or "ThreadPool stopped" thrown
ThreadPool_submit(c) ==
    LET sub == submit(Callable(c, ledger.accepted + 1))
    IN  /\ Free(c)
        /\ ~Joined
        /\ ledger.accepted + ledger.refused < MaxTasks
        /\ tasks' = sub.tasks
        /\ IF sub.thrown
           THEN /\ ledger' = [ledger EXCEPT !.refused = @ + 1]
                /\ UNCHANGED clients
           ELSE /\ ledger' = [ledger EXCEPT !.accepted = @ + 1]
                /\ clients' = [clients EXCEPT ![c].pc = "task_wait",
                                              ![c].fut = Pending]
        /\ UNCHANGED <<cacheVars, store, committed, reply, deleted, last_write,
                       workers, stop_flag, pool_size, construction, db_pool>>

\* try { task(); } catch (...) {} : the packaged_task publishes the value
\* returned or the exception thrown, and the worker returns to the queue
Worker_Run(w) ==
    \E outcome \in {"value", "throw"} :
        LET t == workers[w].task
        IN  /\ workers[w].pc = "run"
            /\ clients' = [clients EXCEPT ![t.client].fut =
                              IF outcome = "throw" THEN Thrown
                              ELSE Ready(TRUE, 0)]
            /\ ledger' = [ledger EXCEPT !.outcomes =
                              Append(@, [ticket |-> t.ticket,
                                         outcome |-> outcome])]
            /\ workers' = [workers EXCEPT ![w] = IdleWorker]
            /\ UNCHANGED <<cacheVars, store, committed, reply, deleted,
                           last_write, tasks, stop_flag, pool_size,
                           construction, db_pool>>

\* the caller's fut.get() returns the value or rethrows
Future_get(c) ==
    /\ clients[c].pc = "task_wait"
    /\ clients[c].fut.state \in {"ready", "thrown"}
    /\ clients' = [clients EXCEPT ![c] = IdleClient]
    /\ UNCHANGED <<cacheVars, store, committed, reply, deleted, last_write,
                   tasks, workers, stop_flag, pool_size, construction, ledger,
                   db_pool>>

\* ~ThreadPool : stop_flag set under the lock, notify_all
ThreadPool_Stop ==
    /\ ~stop_flag
    /\ stop_flag' = TRUE
    /\ UNCHANGED <<cacheVars, store, committed, clients, reply, deleted,
                   last_write, tasks, workers, pool_size, construction, ledger,
                   db_pool>>

\* Worker_Exit as soon as stop_flag is seen, whatever the queue holds
Worker_ExitOnStop(w) ==
    /\ workers[w].pc = "wait"
    /\ stop_flag
    /\ workers' = [workers EXCEPT ![w].pc = "exited"]
    /\ UNCHANGED <<cacheVars, store, committed, clients, reply, deleted,
                   last_write, tasks, stop_flag, pool_size, construction,
                   ledger, db_pool>>

\* if (stop_flag && tasks.empty()) return;
Worker_Exit(w) ==
    /\ workers[w].pc = "wait"
    /\ stop_flag
    /\ tasks = <<>>
    /\ workers' = [workers EXCEPT ![w].pc = "exited"]
    /\ UNCHANGED <<cacheVars, store, committed, clients, reply, deleted,
                   last_write, tasks, stop_flag, pool_size, construction,
                   ledger, db_pool>>

NextExecutor ==
    \/ \E c \in Clients : ThreadPool_submit(c)
    \/ \E w \in Workers : Worker_Take(w)
    \/ \E w \in Workers : Worker_Run(w)
    \/ \E c \in Clients : Future_get(c)
    \/ ThreadPool_Stop
    \/ \E w \in Workers : Worker_Exit(w)

SpecExecutor == InitExecutor /\ [][NextExecutor]_vars

\* a worker thread that can leave cv.wait, or that holds a task, runs
FairExecutor ==
    /\ SpecExecutor
    /\ \A w \in 1..PoolSize :
        /\ WF_vars(w \in Workers /\ (Worker_Take(w) \/ Worker_Exit(w)))
        /\ WF_vars(w \in Workers /\ Worker_Run(w))

\* the accepted submissions
Tickets == 1..ledger.accepted

Queued(n) == {i \in DOMAIN tasks : tasks[i].ticket = n}

Holders(n) ==
    {w \in Workers : workers[w].pc = "run" /\ workers[w].task.ticket = n}

Published(n) ==
    {i \in DOMAIN ledger.outcomes : ledger.outcomes[i].ticket = n}

\* a worker that ends a task, returned or thrown, waits for the next one
WorkerSurvives ==
    \A w \in Workers :
        workers[w].pc = "run" /\ workers'[w].pc # "run" =>
            workers'[w].pc = "wait"

\* a future is fulfilled by the step that publishes its task's outcome
FulfilledOnce ==
    \A c \in Clients :
        /\ clients[c].fut.state \in {"ready", "thrown"} /\ clients'[c].pc # "idle"
               => clients'[c].fut = clients[c].fut
        /\ clients[c].fut.state = "pending" /\ clients'[c].fut.state # "pending"
               => /\ Len(ledger'.outcomes) = Len(ledger.outcomes) + 1
                  /\ clients'[c].fut.state =
                        IF ledger'.outcomes[Len(ledger'.outcomes)].outcome
                               = "throw"
                        THEN "thrown" ELSE "ready"

\* C24: every accepted task is at one place at a time - once in the queue,
\* or in the hands of one worker, or published once - so that it is
\* dequeued by one worker, run at most once and its future receives one
\* outcome; a worker whose task throws goes back to wait for the next task
ExactlyOnce ==
    /\ [](\A n \in Tickets :
            Cardinality(Queued(n)) + Cardinality(Holders(n))
                + Cardinality(Published(n)) = 1)
    /\ [][WorkerSurvives /\ FulfilledOnce]_vars

\* the one worker ran a task that threw and now runs a later one
WitExactlyOnce ==
    /\ pool_size = 1
    /\ workers[1].pc = "run"
    /\ \E i \in DOMAIN ledger.outcomes :
        /\ ledger.outcomes[i].outcome = "throw"
        /\ ledger.outcomes[i].ticket < workers[1].task.ticket

\* C25: the task a worker dequeues was submitted before every task still in
\* the queue (tickets are handed out in the order of the submissions)
ExecutorFIFO ==
    [][\A w \in Workers :
          workers[w].pc = "wait" /\ workers'[w].pc = "run" =>
              \A i \in DOMAIN tasks' :
                  workers'[w].task.ticket < tasks'[i].ticket]_vars

\* a worker has dequeued the first of two queued tasks
WitExecutorFIFO ==
    \E w \in Workers :
        /\ workers[w].pc = "run"
        /\ tasks # <<>>
        /\ workers[w].task.ticket < Head(tasks).ticket
        /\ Cardinality({v \in Workers : workers[v].pc = "run"}) = 1

\* C26: once stop_flag is set, the tasks in the queue are still run and
\* their outcomes published, and every worker exits; a worker exits only
\* when it sees stop_flag set and the queue empty
ShutdownDrains ==
    /\ stop_flag ~>
          (Joined /\ tasks = <<>>
             /\ \A n \in Tickets : Cardinality(Published(n)) = 1)
    /\ [][\A w \in Workers :
            workers[w].pc # "exited" /\ workers'[w].pc = "exited" =>
                stop_flag /\ tasks = <<>>]_vars

\* stop_flag is set while two tasks are in the queue
WitShutdownDrains ==
    /\ stop_flag
    /\ Len(tasks) = 2

\* C27: with stop_flag set no submission is accepted, and a refused
\* submission leaves the queue, the workers and the futures as they were
SubmitAfterStop ==
    [][stop_flag =>
          /\ ledger'.accepted = ledger.accepted
          /\ tasks' = tasks \/ (tasks # <<>> /\ tasks' = Tail(tasks))
          /\ ledger'.refused # ledger.refused =>
                tasks' = tasks /\ workers' = workers /\ clients' = clients]_vars

\* a submission was refused while a task of before the stop was queued
WitSubmitAfterStop ==
    /\ ledger.refused > 0
    /\ tasks # <<>>


\* ============================================================ the start-up
\* KVServer::KVServer builds the session pool, then GET requests borrow from it
InitStartup ==
    /\ total_capacity = CacheCapacity
    /\ shard_count = ClampShardCount(ServerShards)
    /\ shards = ShardedLRUCache(CacheCapacity, ServerShards)
    /\ shard_mutex = [s \in 0..(shard_count - 1) |-> {}]
    /\ ret = [op |-> "none"]
    /\ script = <<>>
    /\ store \in [StoreKeys -> {Nullopt} \cup {Some(v) : v \in Values}]
    /\ committed = [k \in StoreKeys |->
                       IF store[k].has_value THEN {store[k].value} ELSE {}]
    /\ clients = [c \in Clients |-> IdleClient]
    /\ reply = NoReply
    /\ deleted = {}
    /\ tasks = <<>>
    /\ pool_size \in 1..PoolSize
    /\ workers = [w \in Workers |-> IdleWorker]
    /\ stop_flag = FALSE
    /\ db_pool = <<>>
    /\ construction = [pc |-> "loop", i |-> 0, open |-> {}, closed |-> <<>>]
    /\ ledger = NoLedger
    /\ last_write = <<>>

\* one turn of the constructor's loop: the session is opened and pushed, or
\* mysql_init fails, or mysql_real_connect fails and the handle is closed;
\* a throw destroys the _pool member, the handles it held stay open
DBPool_Open ==
    \E outcome \in {"ok", "init_failed", "connect_failed"} :
        LET conn == construction.i + 1
        IN  /\ construction.pc = "loop"
            /\ construction' =
                 IF outcome = "ok"
                 THEN [construction EXCEPT
                          !.pc = IF conn = pool_size THEN "done" ELSE "loop",
                          !.i = conn,
                          !.open = @ \cup {conn}]
                 ELSE IF outcome = "init_failed"
                 THEN [construction EXCEPT !.pc = "thrown"]
                 ELSE [construction EXCEPT !.pc = "thrown",
                                           !.closed = Append(@, conn)]
            /\ db_pool' = IF outcome = "ok" THEN Append(db_pool, conn)
                          ELSE <<>>
            /\ UNCHANGED <<cacheVars, store, committed, clients, reply,
                           deleted, last_write, tasks, workers, stop_flag,
                           pool_size, ledger>>

\* the constructor has returned: the server takes requests
Serving == construction.pc = "done"

NextStartup ==
    \/ DBPool_Open
    \/ Serving /\ \E c \in Clients : HandleGet_Begin(c)
    \/ Serving /\ \E c \in Clients : HandleGet_CacheGet(c)
    \/ Serving /\ \E c \in Clients : HandleGet_Acquire(c)
    \/ Serving /\ \E c \in Clients : HandleGet_Select(c)
    \/ Serving /\ \E c \in Clients : HandleGet_Fill(c)

SpecStartup == InitStartup /\ [][NextStartup]_vars

\* the sessions opened before the failing one, in the order of their close
ClosedPrior ==
    SelectSeq(construction.closed, LAMBDA conn : conn <= construction.i)

\* C28: when the constructor throws at the i-th session, the i-1 sessions
\* opened before it have been closed, the last opened first, and none of
\* them is left open
InitFailureCleansUp ==
    construction.pc = "thrown" =>
        /\ ClosedPrior = [k \in 1..construction.i |-> construction.i + 1 - k]
        /\ construction.open \subseteq
               {construction.closed[k] : k \in DOMAIN construction.closed}


\* ========================================================= fair scheduling
\* the next step of the handler thread c, whatever its position
RequestStep(c) ==
    \/ HandleGet_CacheGet(c)
    \/ HandleGet_Acquire(c)
    \/ HandleGet_Select(c)
    \/ HandleGet_Fill(c)
    \/ HandlePut_Finish(c)
    \/ HandleDelete_Finish(c)

\* the next step of the worker w, whatever its position
WorkerStep(w) ==
    \/ Worker_Take(w)
    \/ Task_Acquire(w)
    \/ Task_Call(w)

\* every thread that stays able to take its next step takes it; the mutexes
\* and condition variables hand nothing over: a thread woken from a wait
\* competes again with the threads that arrive (_cv.wait with a predicate,
\* notify_one, std::shared_mutex)
FairBusy ==
    /\ SpecBusy
    /\ \A c \in Clients : WF_vars(RequestStep(c))
    /\ \A w \in 1..PoolSize : WF_vars(w \in Workers /\ WorkerStep(w))

\* the caller is in acquire(): a GET on its handler thread, a task on its
\* worker
InAcquire(c) ==
    \/ clients[c].pc = "get_acquire"
    \/ \E w \in Workers : workers[w].pc = "run" /\ workers[w].task.client = c

\* acquire() has returned a session to the caller
Acquired(c) ==
    \/ HandlerHolds(c)
    \/ \E w \in Workers : TaskHolds(w) /\ workers[w].task.client = c

\* C21: no request is blocked forever - every request that has begun
\* eventually replies, its handler thread being free again
NoDeadlock ==
    \A c \in Clients : ~Free(c) ~> Free(c)

\* C23: acquire() returns only when a session is idle, and every caller in
\* acquire() eventually obtains a session
AcquireCannotStarve ==
    /\ [][\A c \in Clients :
            ~Acquired(c) /\ Acquired(c)' => db_pool # <<>>]_vars
    /\ \A c \in Clients : InAcquire(c) ~> Acquired(c)

====
